---- MODULE Spec2Model ----
(***************************************************************************)
(* A model of the sawp-modbus parser (sawp-modbus/src/lib.rs): the MBAP    *)
(* framer Modbus::parse, the PDU dissectors of Message, the category       *)
(* resolver, Message::matches and the accessors get_address_range and      *)
(* get_write_value_at_address.                                             *)
(*                                                                         *)
(* Bytes are integers 0..255, byte slices are sequences.  Bit-flag sets    *)
(* (AccessType, ErrorFlags) are sets of flag names: union is |, a          *)
(* non-empty intersection is intersects(), inclusion is contains().        *)
(* The nom streaming readers (be_u8, be_u16, take) fail with               *)
(* Incomplete(missing bytes) on a short slice.                             *)
(***************************************************************************)
EXTENDS Integers, Sequences, FiniteSets, TLC

VARIABLES
    bytes,      \* parse loop: the unparsed rest of the stream
    direction,  \* parse loop: the Direction hint given to parse
    checks,     \* build profile: TRUE when integer overflow checks are on
    probed,     \* the slice given to the latest probe call
    arg,        \* parse loop: the slice given to the latest parse call
    result,     \* parse loop: what the latest parse call returned
    status,     \* what probe returned for arg
    pc,         \* parse loop: "call" while parse_bytes runs, then "done"
    self,       \* matching: the first parsed message (or NoMsg)
    other,      \* matching: the second parsed message (or NoMsg)
    ret,        \* matching: what self.matches(other) returned
    back,       \* matching: what other.matches(self) returned
    addr1,      \* accessors: the address given to get_write_value_at_address
    address_range, \* accessors: what get_address_range returned
    write_value,   \* accessors: what get_write_value_at_address returned
    op          \* the operation that made the latest step

vars == <<bytes, direction, checks, probed, arg, result, status, pc, self, other, ret, back,
          addr1, address_range, write_value, op>>

(***************************************************************************)
(* Constants of the source.                                                *)
(***************************************************************************)
ERROR_MASK == 128
MAX_QUANTITY_BIT_ACCESS == 2000
MAX_QUANTITY_WORD_ACCESS == 125
MIN_RD_COUNT == 1
MAX_RD_COUNT == 250
U16 == 2 ^ 16

Directions == {"ToServer", "ToClient", "Unknown"}

(***************************************************************************)
(* Bit-flag helpers.                                                       *)
(***************************************************************************)
Intersects(flagset, mask) == flagset \cap mask # {}
Contains(flagset, mask) == mask \subseteq flagset

BIT_ACCESS_MASK == {"DISCRETES", "COILS"}
WRITE_SINGLE == {"WRITE", "SINGLE"}
WRITE_MULTIPLE == {"WRITE", "MULTIPLE"}

(***************************************************************************)
(* Code taxonomies.                                                        *)
(***************************************************************************)
FunctionCodeNames ==
    << "RdCoils", "RdDiscreteInputs", "RdHoldRegs", "RdInputRegs",
       "WrSingleCoil", "WrSingleReg", "RdExcStatus", "Diagnostic",
       "Program484", "Poll484", "GetCommEventCtr", "GetCommEventLog",
       "ProgramController", "PollController", "WrMultCoils", "WrMultRegs",
       "ReportServerID", "Program884", "ResetCommLink", "RdFileRec",
       "WrFileRec", "MaskWrReg", "RdWrMultRegs", "RdFIFOQueue" >>

FunctionCodeFromRaw(val) ==
    IF val >= 1 /\ val <= 24 THEN FunctionCodeNames[val]
    ELSE IF val = 43 THEN "MEI"
    ELSE "Unknown"

FunctionNew(val) ==
    [raw |-> val,
     code |-> IF val >= ERROR_MASK
              THEN FunctionCodeFromRaw(val - ERROR_MASK)
              ELSE FunctionCodeFromRaw(val)]

AccessTypeOf(code) ==
    CASE code = "RdCoils" -> {"COILS", "READ"}
      [] code = "RdDiscreteInputs" -> {"DISCRETES", "READ"}
      [] code = "RdHoldRegs" -> {"HOLDING", "READ"}
      [] code = "RdInputRegs" -> {"INPUT", "READ"}
      [] code = "WrSingleCoil" -> {"COILS"} \cup WRITE_SINGLE
      [] code = "WrSingleReg" -> {"HOLDING"} \cup WRITE_SINGLE
      [] code = "WrMultCoils" -> {"COILS"} \cup WRITE_MULTIPLE
      [] code = "WrMultRegs" -> {"HOLDING"} \cup WRITE_MULTIPLE
      [] code = "MaskWrReg" -> {"HOLDING", "WRITE"}
      [] code = "RdWrMultRegs" -> {"HOLDING", "READ"} \cup WRITE_MULTIPLE
      [] OTHER -> {}

CodeCategoryFromRaw(id) ==
    IF id = 0 THEN "NONE"
    ELSE IF id < 9 THEN "PUBLIC_UNASSIGNED"
    ELSE IF id < 15 THEN "RESERVED"
    ELSE IF id < 41 THEN "PUBLIC_UNASSIGNED"
    ELSE IF id < 43 THEN "RESERVED"
    ELSE IF id < 65 THEN "PUBLIC_UNASSIGNED"
    ELSE IF id < 73 THEN "USER_DEFINED"
    ELSE IF id < 90 THEN "PUBLIC_UNASSIGNED"
    ELSE IF id < 92 THEN "RESERVED"
    ELSE IF id < 100 THEN "PUBLIC_UNASSIGNED"
    ELSE IF id < 111 THEN "USER_DEFINED"
    ELSE IF id < 125 THEN "PUBLIC_UNASSIGNED"
    ELSE IF id < 128 THEN "RESERVED"
    ELSE "NONE"

DiagnosticSubfunctionNames ==
    << "RetQueryData", "RestartCommOpt", "RetDiagReg", "ChangeInputDelimiter",
       "ForceListenOnlyMode", "Reserved", "Reserved", "Reserved", "Reserved",
       "Reserved", "ClearCtrDiagReg", "RetBusMsgCount", "RetBusCommErrCount",
       "RetBusExcErrCount", "RetServerMsgCount", "RetServerNoRespCount",
       "RetServerNAKCount", "RetServerBusyCount", "RetBusCharOverrunCount",
       "RetOverrunErrCount", "ClearOverrunCounterFlag", "GetClearPlusStats" >>

DiagnosticNew(val) ==
    [raw |-> val,
     code |-> IF val <= 21 THEN DiagnosticSubfunctionNames[val + 1] ELSE "Reserved"]

MEINew(val) ==
    [raw |-> val,
     code |-> IF val = 13 THEN "CANOpenGenRefReqResp"
              ELSE IF val = 14 THEN "RdDevId"
              ELSE "Unknown"]

ExceptionCodeNames ==
    << "IllegalFunction", "IllegalDataAddr", "IllegalDataValue",
       "ServerDeviceFail", "Ack", "ServerDeviceBusy", "NegAck", "MemParityErr",
       "Unknown", "GatewayPathUnavailable", "GatewayTargetFailToResp" >>

ExceptionNew(val) ==
    [raw |-> val,
     code |-> IF val >= 1 /\ val <= 11 THEN ExceptionCodeNames[val] ELSE "Unknown"]

(***************************************************************************)
(* Results.  A dissector returns Ok with the message and the rest of the   *)
(* slice, or an error; a reader returns Ok with a value and the rest.      *)
(***************************************************************************)
Incomplete(n) == [kind |-> "Incomplete", needed |-> n]
InvalidData == [kind |-> "InvalidData"]
Panic == [kind |-> "Panic"]
Ok(msg, rest) == [kind |-> "Ok", msg |-> msg, rest |-> rest]
Val(v, rest) == [kind |-> "Ok", val |-> v, rest |-> rest]

Drop(s, n) == SubSeq(s, n + 1, Len(s))
TakeSeq(s, n) == SubSeq(s, 1, n)

BeU8(input) ==
    IF Len(input) < 1 THEN Incomplete(1 - Len(input))
    ELSE Val(input[1], Drop(input, 1))

BeU16(input) ==
    IF Len(input) < 2 THEN Incomplete(2 - Len(input))
    ELSE Val(input[1] * 256 + input[2], Drop(input, 2))

Take(n, input) ==
    IF Len(input) < n THEN Incomplete(n - Len(input))
    ELSE Val(TakeSeq(input, n), Drop(input, n))

(***************************************************************************)
(* The PDU dissectors of Message.  Each takes the message built so far     *)
(* and the slice after the function byte.                                  *)
(***************************************************************************)
DataLength(msg) == msg.length - 2

AddFlag(msg, cond, flag) ==
    IF cond THEN [msg EXCEPT !.flags = @ \cup {flag}] ELSE msg

\* Mutant: the function number is taken without the exception bit.
ExcCodeImplausibleByNumber(function, exc) ==
    \/ exc.code = "IllegalDataValue" /\ function.code = "Diagnostic"
    \/ /\ exc.code = "IllegalDataAddr"
       /\ \/ function.raw % ERROR_MASK > 6 /\ function.raw % ERROR_MASK < 15
          \/ function.raw % ERROR_MASK > 16 /\ function.raw % ERROR_MASK < 22
    \/ /\ exc.code = "MemParityErr"
       /\ function.code # "RdFileRec"
       /\ function.code # "WrFileRec"

ExcCodeImplausible(function, exc) ==
    \/ exc.code = "IllegalDataValue" /\ function.code = "Diagnostic"
    \/ /\ exc.code = "IllegalDataAddr"
       /\ \/ function.raw > 6 /\ function.raw < 15
          \/ function.raw > 16 /\ function.raw < 22
    \/ /\ exc.code = "MemParityErr"
       /\ function.code # "RdFileRec"
       /\ function.code # "WrFileRec"

ParseException(msg, input) ==
    LET r == BeU8(input) IN
    IF r.kind # "Ok" THEN r
    ELSE LET exc == ExceptionNew(r.val)
             m1 == AddFlag(msg, ExcCodeImplausible(msg.function, exc), "EXC_CODE")
         IN Ok([m1 EXCEPT !.data = [tag |-> "Exception", exc |-> exc]], r.rest)

ParseDiagnostic(msg, input) ==
    IF DataLength(msg) < 2 THEN InvalidData
    ELSE LET r1 == BeU16(input) IN
         IF r1.kind # "Ok" THEN r1
         ELSE LET r2 == Take(DataLength(msg) - 2, r1.rest) IN
              IF r2.kind # "Ok" THEN r2
              ELSE Ok([msg EXCEPT !.data = [tag |-> "Diagnostic",
                                            func |-> DiagnosticNew(r1.val),
                                            data |-> r2.val]],
                      r2.rest)

ParseMei(msg, input) ==
    IF DataLength(msg) < 1 THEN InvalidData
    ELSE LET r1 == BeU8(input) IN
         IF r1.kind # "Ok" THEN r1
         ELSE LET r2 == Take(DataLength(msg) - 1, r1.rest) IN
              IF r2.kind # "Ok" THEN r2
              ELSE Ok([msg EXCEPT !.data = [tag |-> "MEI",
                                            mei_type |-> MEINew(r1.val),
                                            data |-> r2.val]],
                      r2.rest)

ParseBytevec(msg, input) ==
    LET r == Take(DataLength(msg), input) IN
    IF r.kind # "Ok" THEN r
    ELSE Ok([msg EXCEPT !.data = [tag |-> "ByteVec", data |-> r.val]], r.rest)

\* Mutant: a zero quantity is a hard error instead of a flag.
ParseReadRequestStrict(msg, input) ==
    LET r1 == BeU16(input) IN
    IF r1.kind # "Ok" THEN r1
    ELSE LET r2 == BeU16(r1.rest) IN
         IF r2.kind # "Ok" THEN r2
         ELSE IF r2.val = 0 THEN InvalidData
         ELSE Ok([msg EXCEPT !.data = [tag |-> "ReadRequest",
                                       address |-> r1.val,
                                       quantity |-> r2.val]],
                 r2.rest)

\* Mutant: the word limit is applied to every read, bit access included.
ParseReadRequestWordLimit(msg, input) ==
    LET r1 == BeU16(input) IN
    IF r1.kind # "Ok" THEN r1
    ELSE LET r2 == BeU16(r1.rest) IN
         IF r2.kind # "Ok" THEN r2
         ELSE LET m1 == AddFlag(msg, r2.val = 0 \/ r2.val > MAX_QUANTITY_WORD_ACCESS,
                                "DATA_VALUE")
                  m2 == AddFlag(m1, msg.function.code # "RdWrMultRegs"
                                    /\ DataLength(msg) > 4, "DATA_LENGTH")
              IN Ok([m2 EXCEPT !.data = [tag |-> "ReadRequest",
                                         address |-> r1.val,
                                         quantity |-> r2.val]],
                    r2.rest)

ParseReadRequest(msg, input) ==
    LET r1 == BeU16(input) IN
    IF r1.kind # "Ok" THEN r1
    ELSE LET r2 == BeU16(r1.rest) IN
         IF r2.kind # "Ok" THEN r2
         ELSE LET address == r1.val
                  quantity == r2.val
                  m1 == AddFlag(msg, quantity = 0, "DATA_VALUE")
                  m2 == AddFlag(m1, msg.function.code # "RdWrMultRegs"
                                    /\ DataLength(msg) > 4, "DATA_LENGTH")
                  m3 == IF Intersects(msg.access_type, BIT_ACCESS_MASK)
                        THEN AddFlag(m2, quantity > MAX_QUANTITY_BIT_ACCESS, "DATA_VALUE")
                        ELSE AddFlag(m2, quantity > MAX_QUANTITY_WORD_ACCESS, "DATA_VALUE")
              IN Ok([m3 EXCEPT !.data = [tag |-> "ReadRequest",
                                         address |-> address,
                                         quantity |-> quantity]],
                    r2.rest)

ParseReadResponse(msg, input) ==
    IF DataLength(msg) < 1 THEN InvalidData
    ELSE LET r1 == BeU8(input) IN
         IF r1.kind # "Ok" THEN r1
         ELSE LET count == r1.val
                  m1 == AddFlag(msg, count < MIN_RD_COUNT \/ count > MAX_RD_COUNT,
                                "DATA_VALUE")
                  m2 == AddFlag(m1, DataLength(msg) - 1 # count, "DATA_VALUE")
                  r2 == Take(DataLength(msg) - 1, r1.rest)
              IN IF r2.kind # "Ok" THEN r2
                 ELSE Ok([m2 EXCEPT !.data = [tag |-> "ReadResponse", data |-> r2.val]],
                         r2.rest)

\* self.length - offset on u16: a build with overflow checks panics on
\* underflow, a build without them wraps.
SubU16(a, b, chk) ==
    IF a >= b THEN [kind |-> "Ok", val |-> a - b]
    ELSE IF chk THEN Panic
    ELSE [kind |-> "Ok", val |-> a - b + U16]

WriteMultOffset(msg) ==
    IF msg.function.code = "RdWrMultRegs" THEN 7 + 4 ELSE 7

WriteMultFlags(msg, quantity, count, taken) ==
    LET m1 == AddFlag(msg, quantity = 0 \/ taken # count, "DATA_VALUE")
    IN IF Contains(msg.access_type, BIT_ACCESS_MASK)
       THEN AddFlag(m1, \/ quantity > MAX_QUANTITY_BIT_ACCESS
                        \/ quantity # (count \div 8)
                                       + (IF count % 8 # 0 THEN 1 ELSE 0),
                    "DATA_VALUE")
       ELSE AddFlag(m1, \/ quantity > MAX_QUANTITY_WORD_ACCESS
                        \/ count # 2 * quantity,
                    "DATA_VALUE")

WriteMultData(msg, address, quantity, data) ==
    LET write == [tag |-> "WriteMultReq", address |-> address,
                  quantity |-> quantity, data |-> data]
    IN IF msg.data.tag \in {"ReadRequest", "ReadResponse"}
       THEN [tag |-> "ReadWrite", read |-> msg.data, write |-> write]
       ELSE write

ParseWriteSingle(msg, address, input, request) ==
    LET r == BeU16(input) IN
    IF r.kind # "Ok" THEN r
    ELSE LET m1 == AddFlag(msg, DataLength(msg) > 4, "DATA_LENGTH")
             m2 == AddFlag(m1, /\ request
                               /\ Contains(msg.access_type, {"COILS"})
                               /\ r.val # 0
                               /\ r.val # 65280,
                           "DATA_VALUE")
         IN Ok([m2 EXCEPT !.data = [tag |-> "WriteOther", address |-> address,
                                    data |-> r.val]],
               r.rest)

ParseWriteMask(msg, address, input) ==
    LET r1 == BeU16(input) IN
    IF r1.kind # "Ok" THEN r1
    ELSE LET r2 == BeU16(r1.rest) IN
         IF r2.kind # "Ok" THEN r2
         ELSE LET m1 == AddFlag(msg, DataLength(msg) > 6, "DATA_LENGTH")
              IN Ok([m1 EXCEPT !.data = [tag |-> "WriteMask", address |-> address,
                                         and_mask |-> r1.val, or_mask |-> r2.val]],
                    r2.rest)

ParseWriteMultRequest(msg, address, input, chk) ==
    LET r1 == BeU16(input) IN
    IF r1.kind # "Ok" THEN r1
    ELSE LET r2 == BeU8(r1.rest) IN
         IF r2.kind # "Ok" THEN r2
         ELSE LET n == SubU16(msg.length, WriteMultOffset(msg), chk) IN
              IF n.kind # "Ok" THEN n
              ELSE LET m1 == WriteMultFlags(msg, r1.val, r2.val, n.val)
                       r3 == Take(n.val, r2.rest)
                   IN IF r3.kind # "Ok" THEN r3
                      ELSE Ok([m1 EXCEPT !.data =
                                   WriteMultData(msg, address, r1.val, r3.val)],
                              r3.rest)

ParseWriteRequest(msg, input, chk) ==
    LET r == BeU16(input) IN
    IF r.kind # "Ok" THEN r
    ELSE IF Contains(msg.access_type, {"SINGLE"})
         THEN ParseWriteSingle(msg, r.val, r.rest, TRUE)
    ELSE IF Contains(msg.access_type, {"MULTIPLE"})
         THEN ParseWriteMultRequest(msg, r.val, r.rest, chk)
    ELSE ParseWriteMask(msg, r.val, r.rest)

ParseWriteMultResponse(msg, address, input) ==
    LET r == BeU16(input) IN
    IF r.kind # "Ok" THEN r
    ELSE LET quantity == r.val
             m1 == AddFlag(msg, DataLength(msg) > 4, "DATA_LENGTH")
             m2 == AddFlag(m1, quantity = 0, "DATA_VALUE")
             m3 == IF Intersects(msg.access_type, BIT_ACCESS_MASK)
                   THEN AddFlag(m2, quantity > MAX_QUANTITY_WORD_ACCESS, "DATA_VALUE")
                   ELSE AddFlag(m2, quantity > MAX_QUANTITY_BIT_ACCESS, "DATA_VALUE")
         IN Ok([m3 EXCEPT !.data = [tag |-> "WriteOther", address |-> address,
                                    data |-> quantity]],
               r.rest)

ParseWriteResponse(msg, input) ==
    LET r == BeU16(input) IN
    IF r.kind # "Ok" THEN r
    ELSE IF Contains(msg.access_type, {"SINGLE"})
         THEN ParseWriteSingle(msg, r.val, r.rest, FALSE)
    ELSE IF Contains(msg.access_type, {"MULTIPLE"})
         THEN ParseWriteMultResponse(msg, r.val, r.rest)
    ELSE ParseWriteMask(msg, r.val, r.rest)

(***************************************************************************)
(* The dispatchers: one per direction.                                     *)
(***************************************************************************)
DiagnosticValueInvalid(func, data) ==
    /\ Len(data) = 2
    /\ CASE func.code \in {"RetQueryData", "ForceListenOnlyMode", "Reserved"} -> FALSE
         [] func.code = "RestartCommOpt" ->
                data[2] # 0 \/ (data[1] # 0 /\ data[1] # 255)
         [] func.code = "ChangeInputDelimiter" -> data[2] # 0
         [] OTHER -> data[1] # 0 \/ data[2] # 0

ParseDiagnosticRequest(msg, input) ==
    LET m1 == AddFlag(msg, DataLength(msg) # 4, "DATA_LENGTH")
        r == ParseDiagnostic(m1, input)
    IN IF r.kind # "Ok" THEN r
       ELSE Ok(AddFlag(r.msg,
                       /\ r.msg.data.tag = "Diagnostic"
                       /\ DiagnosticValueInvalid(r.msg.data.func, r.msg.data.data),
                       "DATA_VALUE"),
               r.rest)

RequestLengthInvalid(msg) ==
    \/ /\ msg.function.code \in {"RdFileRec", "WrFileRec"}
       /\ DataLength(msg) = 0
    \/ /\ msg.function.code \in {"RdExcStatus", "GetCommEventCtr",
                                 "GetCommEventLog", "ReportServerID"}
       /\ DataLength(msg) > 0
    \/ /\ msg.function.code = "RdFIFOQueue"
       /\ DataLength(msg) # 2

ParseRequest(msg, input, chk) ==
    IF msg.function.code = "Diagnostic" THEN ParseDiagnosticRequest(msg, input)
    ELSE IF msg.function.code = "MEI" THEN ParseMei(msg, input)
    ELSE IF RequestLengthInvalid(msg)
         THEN ParseBytevec(AddFlag(msg, TRUE, "DATA_LENGTH"), input)
    ELSE IF Intersects(msg.access_type, {"READ"})
         THEN LET r == ParseReadRequest(msg, input) IN
              IF r.kind # "Ok" THEN r
              ELSE IF Intersects(msg.access_type, {"WRITE"})
                   THEN ParseWriteRequest(r.msg, r.rest, chk)
              ELSE r
    ELSE IF Intersects(msg.access_type, {"WRITE"})
         THEN ParseWriteRequest(msg, input, chk)
    ELSE ParseBytevec(msg, input)

ResponseLengthInvalid(msg) ==
    \/ msg.function.code = "RdExcStatus" /\ DataLength(msg) # 1
    \/ msg.function.code = "GetCommEventCtr" /\ DataLength(msg) # 4

\* Mutant: the symbolic code is dispatched on before the exception bit.
ParseResponseCodeFirst(msg, input) ==
    IF msg.function.code = "Diagnostic" THEN ParseDiagnostic(msg, input)
    ELSE IF msg.function.code = "MEI" THEN ParseMei(msg, input)
    ELSE IF msg.function.raw >= ERROR_MASK THEN ParseException(msg, input)
    ELSE ParseBytevec(msg, input)

ParseResponse(msg, input) ==
    IF msg.function.raw >= ERROR_MASK THEN ParseException(msg, input)
    ELSE IF msg.function.code = "Diagnostic" THEN ParseDiagnostic(msg, input)
    ELSE IF msg.function.code = "MEI" THEN ParseMei(msg, input)
    ELSE IF ResponseLengthInvalid(msg)
         THEN ParseBytevec(AddFlag(msg, TRUE, "DATA_LENGTH"), input)
    ELSE IF Intersects(msg.access_type, {"READ"}) THEN ParseReadResponse(msg, input)
    ELSE IF Intersects(msg.access_type, {"WRITE"}) THEN ParseWriteResponse(msg, input)
    ELSE ParseBytevec(msg, input)

\* Mutant: without a direction the message is dissected as a response.
ParseUnknownAsResponse(msg, input) == ParseResponse(msg, input)

ParseUnknown(msg, input) ==
    IF msg.function.raw >= ERROR_MASK THEN ParseException(msg, input)
    ELSE IF msg.function.code = "Diagnostic" THEN ParseDiagnostic(msg, input)
    ELSE IF msg.function.code = "MEI" THEN ParseMei(msg, input)
    ELSE ParseBytevec(msg, input)

(***************************************************************************)
(* The category resolver.                                                  *)
(***************************************************************************)
\* Mutant: a Diagnostic or MEI function whose data is of another variant
\* is PUBLIC_ASSIGNED.
CodeCategoryAssignedByDefault(msg) ==
    IF msg.function.code = "Diagnostic"
    THEN IF msg.data.tag = "Diagnostic" /\ msg.data.func.code = "Reserved"
         THEN "RESERVED" ELSE "PUBLIC_ASSIGNED"
    ELSE IF msg.function.code = "MEI"
    THEN IF msg.data.tag = "MEI" /\ msg.data.mei_type.code = "Unknown"
         THEN "RESERVED" ELSE "PUBLIC_ASSIGNED"
    ELSE IF msg.function.code = "Unknown" THEN CodeCategoryFromRaw(msg.function.raw)
    ELSE "PUBLIC_ASSIGNED"

CodeCategoryOf(msg) ==
    IF msg.function.code = "Diagnostic"
    THEN IF msg.data.tag = "Diagnostic"
         THEN IF msg.data.func.code = "Reserved" THEN "RESERVED" ELSE "PUBLIC_ASSIGNED"
         ELSE "NONE"
    ELSE IF msg.function.code = "MEI"
    THEN IF msg.data.tag = "MEI"
         THEN IF msg.data.mei_type.code = "Unknown" THEN "RESERVED" ELSE "PUBLIC_ASSIGNED"
         ELSE "NONE"
    ELSE IF msg.function.code = "Unknown" THEN CodeCategoryFromRaw(msg.function.raw)
    ELSE "PUBLIC_ASSIGNED"

(***************************************************************************)
(* The MBAP framer, Modbus::parse.                                         *)
(***************************************************************************)
\* Mutant: the access type is classified from the raw byte, exception bit
\* included.
NewMessageAccessOfRaw(transaction_id, protocol_id, length, unit_id, raw_func) ==
    [transaction_id |-> transaction_id,
     protocol_id |-> protocol_id,
     length |-> length,
     unit_id |-> unit_id,
     function |-> FunctionNew(raw_func),
     access_type |-> AccessTypeOf(FunctionCodeFromRaw(raw_func)),
     category |-> "NONE",
     data |-> [tag |-> "Empty"],
     flags |-> {}]

NewMessage(transaction_id, protocol_id, length, unit_id, raw_func) ==
    LET function == FunctionNew(raw_func) IN
    [transaction_id |-> transaction_id,
     protocol_id |-> protocol_id,
     length |-> length,
     unit_id |-> unit_id,
     function |-> function,
     access_type |-> AccessTypeOf(function.code),
     category |-> "NONE",
     data |-> [tag |-> "Empty"],
     flags |-> {}]

Dissect(msg, input, dir, chk) ==
    CASE dir = "ToServer" -> ParseRequest(msg, input, chk)
      [] dir = "ToClient" -> ParseResponse(msg, input)
      [] OTHER -> ParseUnknown(msg, input)

ParsePdu(transaction_id, protocol_id, length, input, dir, chk) ==
    LET r1 == BeU8(input) IN
    IF r1.kind # "Ok" THEN r1
    ELSE LET r2 == BeU8(r1.rest) IN
         IF r2.kind # "Ok" THEN r2
         ELSE LET msg == NewMessage(transaction_id, protocol_id, length, r1.val, r2.val)
                  r == Dissect(msg, r2.rest, dir, chk)
              IN IF r.kind # "Ok" THEN r
                 ELSE Ok([r.msg EXCEPT !.category = CodeCategoryOf(r.msg)], r.rest)

InvalidProtocol(protocol_id) == protocol_id # 0

InvalidLength(length) == length < 2

\* Mutant: the unit id is not counted in the length.
FrameMissingAfterUnit(length, input) ==
    IF length + 1 > Len(input) THEN length + 1 - Len(input) ELSE 0

FrameMissing(length, input) ==
    IF length > Len(input) THEN length - Len(input) ELSE 0

\* Mutant: the whole header is read before any field is validated.
ParseValidateLast(input, dir, chk) ==
    LET r1 == BeU16(input) IN
    IF r1.kind # "Ok" THEN r1
    ELSE LET r2 == BeU16(r1.rest) IN
         IF r2.kind # "Ok" THEN r2
         ELSE LET r3 == BeU16(r2.rest) IN
              IF r3.kind # "Ok" THEN r3
              ELSE IF FrameMissing(r3.val, r3.rest) > 0
                   THEN Incomplete(FrameMissing(r3.val, r3.rest))
              ELSE IF InvalidProtocol(r2.val) \/ InvalidLength(r3.val) THEN InvalidData
              ELSE ParsePdu(r1.val, r2.val, r3.val, r3.rest, dir, chk)

Parse(input, dir, chk) ==
    LET r1 == BeU16(input) IN
    IF r1.kind # "Ok" THEN r1
    ELSE LET r2 == BeU16(r1.rest) IN
         IF r2.kind # "Ok" THEN r2
         ELSE IF InvalidProtocol(r2.val) THEN InvalidData
         ELSE LET r3 == BeU16(r2.rest) IN
              IF r3.kind # "Ok" THEN r3
              ELSE IF InvalidLength(r3.val) THEN InvalidData
              ELSE IF FrameMissing(r3.val, r3.rest) > 0
                   THEN Incomplete(FrameMissing(r3.val, r3.rest))
              ELSE ParsePdu(r1.val, r2.val, r3.val, r3.rest, dir, chk)

(***************************************************************************)
(* Message::matches: the result and the receiver with its flags updated.   *)
(***************************************************************************)
CeilDiv8(n) == (n \div 8) + (IF n % 8 # 0 THEN 1 ELSE 0)

\* Mutant: the unit id is not compared.
HeaderDiffersNoUnit(a, b) ==
    \/ a.transaction_id # b.transaction_id
    \/ a.function.code # b.function.code
    \/ a.access_type # b.access_type

HeaderDiffers(a, b) ==
    \/ a.transaction_id # b.transaction_id
    \/ a.unit_id # b.unit_id
    \/ a.function.code # b.function.code
    \/ a.access_type # b.access_type

\* Mutant: a mismatch also resets the receiver's category.
MatchedResetsCategory(a, value, mismatch) ==
    [ret |-> value,
     msg |-> IF mismatch
             THEN [a EXCEPT !.flags = @ \cup {"DATA_VALUE"}, !.category = "NONE"]
             ELSE a]

\* Mutant: a payload mismatch is a false result.
MatchedRejectsMismatch(a, value, mismatch) ==
    [ret |-> value /\ ~mismatch, msg |-> AddFlag(a, mismatch, "DATA_VALUE")]

\* Mutant: a rejection is flagged too.
MatchedFlagsRejection(a, value, mismatch) ==
    [ret |-> value, msg |-> AddFlag(a, mismatch \/ ~value, "DATA_VALUE")]

Matched(a, value, mismatch) ==
    [ret |-> value, msg |-> AddFlag(a, mismatch, "DATA_VALUE")]

ReadQuantity(data) ==
    IF data.tag = "ReadRequest" THEN data.quantity ELSE data.read.quantity

IsReadRequest(data) ==
    \/ data.tag = "ReadRequest"
    \/ data.tag = "ReadWrite" /\ data.read.tag = "ReadRequest"

\* Mutant: every read is counted in registers.
ReadCountMismatchInWords(a, count, quantity) == count # 2 * quantity

ReadCountMismatch(a, count, quantity) ==
    IF a.function.code # "RdWrMultRegs"
    THEN count # CeilDiv8(quantity)
    ELSE count # 2 * quantity

MatchData(a, b) ==
    LET d == a.data
        o == b.data
    IN CASE d.tag = "Exception" -> Matched(a, TRUE, FALSE)
         [] d.tag = "ByteVec" -> Matched(a, TRUE, FALSE)
         [] d.tag = "ReadResponse" ->
                IF IsReadRequest(o)
                THEN Matched(a, TRUE, ReadCountMismatch(a, Len(d.data), ReadQuantity(o)))
                ELSE Matched(a, FALSE, FALSE)
         [] IsReadRequest(d) ->
                IF o.tag = "ReadResponse"
                THEN Matched(a, TRUE, ReadCountMismatch(a, Len(o.data), ReadQuantity(d)))
                ELSE Matched(a, FALSE, FALSE)
         [] d.tag = "WriteOther" ->
                IF o.tag = "WriteOther"
                THEN Matched(a, TRUE, d.address # o.address \/ d.data # o.data)
                ELSE IF o.tag = "WriteMultReq"
                THEN Matched(a, TRUE, d.address # o.address \/ d.data # o.quantity)
                ELSE Matched(a, FALSE, FALSE)
         [] d.tag = "WriteMultReq" ->
                IF o.tag = "WriteOther"
                THEN Matched(a, TRUE, d.address # o.address \/ d.quantity # o.data)
                ELSE Matched(a, FALSE, FALSE)
         [] d.tag = "WriteMask" ->
                IF o.tag = "WriteMask"
                THEN Matched(a, TRUE, \/ d.address # o.address
                                      \/ d.and_mask # o.and_mask
                                      \/ d.or_mask # o.or_mask)
                ELSE Matched(a, FALSE, FALSE)
         [] d.tag = "Diagnostic" ->
                Matched(a, o.tag = "Diagnostic" /\ d.func = o.func, FALSE)
         [] d.tag = "MEI" ->
                Matched(a, o.tag = "MEI" /\ d.mei_type = o.mei_type, FALSE)
         [] OTHER -> Matched(a, TRUE, FALSE)

\* Mutant: only the receiver is checked for an exception.
MatchesSelfExceptionOnly(a, b) ==
    IF HeaderDiffers(a, b) THEN Matched(a, FALSE, FALSE)
    ELSE IF a.category # "PUBLIC_ASSIGNED" THEN Matched(a, TRUE, FALSE)
    ELSE MatchData(a, b)

Matches(a, b) ==
    IF HeaderDiffers(a, b) THEN Matched(a, FALSE, FALSE)
    ELSE IF a.category # "PUBLIC_ASSIGNED" THEN Matched(a, TRUE, FALSE)
    ELSE IF b.data.tag = "Exception" THEN Matched(a, TRUE, FALSE)
    ELSE MatchData(a, b)

(***************************************************************************)
(* Probe::probe, the default method of the sawp crate's Probe trait.       *)
(***************************************************************************)
\* Mutant: every error is Unrecognized.
ProbeNoIncomplete(input, dir, chk) ==
    IF Parse(input, dir, chk).kind = "Ok" THEN "Recognized" ELSE "Unrecognized"

Probe(input, dir, chk) ==
    LET r == Parse(input, dir, chk) IN
    CASE r.kind = "Ok" -> "Recognized"
      [] r.kind = "Incomplete" -> "Incomplete"
      [] r.kind = "Panic" -> "Panic"
      [] OTHER -> "Unrecognized"

(***************************************************************************)
(* The accessors of Message: get_address_range and                         *)
(* get_write_value_at_address.  An Option is None or Some(v); a u16        *)
(* addition that exceeds 65535 panics in a build with overflow checks and  *)
(* wraps in a build without them.                                          *)
(***************************************************************************)
None == [kind |-> "Option::None"]
Some(v) == [kind |-> "Some", val |-> v]

AddU16(a, b, chk) ==
    IF a + b < U16 THEN [kind |-> "Ok", val |-> a + b]
    ELSE IF chk THEN Panic
    ELSE [kind |-> "Ok", val |-> (a + b) % U16]

\* Data::Write(Write::MultReq) or Data::ReadWrite (whose write part is a
\* Write::MultReq), and the Write::MultReq of either.
IsWriteMult(msg) == msg.data.tag \in {"WriteMultReq", "ReadWrite"}

WriteMultOf(msg) ==
    IF msg.data.tag = "ReadWrite" THEN msg.data.write ELSE msg.data

\* RangeInclusive: start..=end, empty when start > end.
RangeInclusive(start, end) == [start |-> start, end |-> end]

RangeContains(r, x) == r.start <= x /\ x <= r.end

GetAddressRange(msg, chk) ==
    IF msg.data.tag \in {"WriteOther", "WriteMask"}
    THEN LET first == AddU16(msg.data.address, 1, chk) IN
         IF first.kind # "Ok" THEN Panic
         ELSE Some(RangeInclusive(first.val, first.val))
    ELSE IF msg.data.tag = "ReadRequest" \/ IsWriteMult(msg)
    THEN LET d == IF msg.data.tag = "ReadRequest" THEN msg.data ELSE WriteMultOf(msg)
             first == AddU16(d.address, 1, chk)
             last == AddU16(d.address, d.quantity, chk)
         IN IF d.quantity > 0
            THEN IF first.kind # "Ok" \/ last.kind # "Ok" THEN Panic
                 ELSE Some(RangeInclusive(first.val, last.val))
            ELSE None
    ELSE None

\* The SINGLE branch: the written value, a coil as 0 or 1.
WriteValueSingle(msg) ==
    IF msg.data.tag # "WriteOther" THEN None
    ELSE IF Contains(msg.access_type, {"COILS"})
         THEN Some(IF msg.data.data # 0 THEN 1 ELSE 0)
    ELSE Some(msg.data.data)

\* Mutant: the offset counts registers, not bytes.
WriteValueMultipleByIndex(msg, addr) ==
    IF ~IsWriteMult(msg) THEN None
    ELSE LET start == WriteMultOf(msg).address
             data == WriteMultOf(msg).data
             index == addr - (start + 1)
         IN IF start = U16 - 1 \/ start >= addr \/ index + 1 >= Len(data) THEN None
            ELSE Some(data[index + 1] * 256 + data[index + 2])

\* The MULTIPLE branch: the two data bytes at the offset of the address,
\* big-endian, and for coils one bit of them.
WriteValueMultiple(msg, addr) ==
    IF ~IsWriteMult(msg) THEN None
    ELSE LET start == WriteMultOf(msg).address
             data == WriteMultOf(msg).data
         IN IF start = U16 - 1 \/ start >= addr THEN None
            ELSE LET index == addr - (start + 1)
                     offset == IF Contains(msg.access_type, {"COILS"})
                               THEN (index * 2) \div 8
                               ELSE index * 2
                 IN IF offset + 1 >= Len(data) THEN None
                    ELSE LET word == data[offset + 1] * 256 + data[offset + 2]
                         IN IF Contains(msg.access_type, {"COILS"})
                            THEN Some((word \div (2 ^ (index % 8))) % 2)
                            ELSE Some(word)

\* Mutant: the address is not compared with the address range.
GetWriteValueUnchecked(msg, addr, chk) ==
    IF GetAddressRange(msg, chk) = Panic THEN Panic
    ELSE IF Contains(msg.access_type, {"SINGLE"}) THEN WriteValueSingle(msg)
    ELSE IF Contains(msg.access_type, {"MULTIPLE"}) THEN WriteValueMultiple(msg, addr)
    ELSE None

GetWriteValueAtAddress(msg, addr, chk) ==
    LET r == GetAddressRange(msg, chk) IN
    IF r = Panic THEN Panic
    ELSE IF r.kind = "Some" /\ ~RangeContains(r.val, addr) THEN None
    ELSE IF Contains(msg.access_type, {"SINGLE"}) THEN WriteValueSingle(msg)
    ELSE IF Contains(msg.access_type, {"MULTIPLE"}) THEN WriteValueMultiple(msg, addr)
    ELSE None

(***************************************************************************)
(* Bounds and the inputs they span.                                        *)
(***************************************************************************)
MaxShort == 7
MaxPayload == 3
MaxData == 2
MaxSkew == 2
MaxFrames == 2

RECURSIVE SeqsUpTo(_, _)
SeqsUpTo(S, n) ==
    IF n = 0 THEN {<<>>}
    ELSE LET shorter == SeqsUpTo(S, n - 1)
         IN shorter \cup {Append(q, x) : q \in {t \in shorter : Len(t) = n - 1}, x \in S}

BeBytes(w) == <<w \div 256, w % 256>>

\* Byte values: zero, one, and 14 (RdDevId as a MEI type, RetServerMsgCount
\* as a diagnostic subfunction, a quantity and a byte count above one).
ByteVals == {0, 1, 14}
\* Function bytes: reads, writes, no-payload functions, Diagnostic, MEI, an
\* unknown function, and exception responses (high bit set).
FuncBytes == {1, 3, 5, 7, 8, 15, 16, 20, 22, 23, 43, 100, 129, 136}

\* Slices shorter than, or barely holding, the MBAP header.
ShortInputs == SeqsUpTo({0, 1}, MaxShort)

ShortPayloads == SeqsUpTo(ByteVals, MaxPayload)

\* Payloads laid out as address and quantity (or value), then padding: the
\* quantities around the limits, and the coil values.
WordPayloads ==
    {BeBytes(a) \o BeBytes(q) \o pad :
        a \in {0, 1},
        q \in {0, 1, MAX_QUANTITY_WORD_ACCESS, MAX_QUANTITY_WORD_ACCESS + 1,
               MAX_QUANTITY_BIT_ACCESS, MAX_QUANTITY_BIT_ACCESS + 1, 65280},
        pad \in SeqsUpTo({0}, MaxData)}

\* Payloads laid out as a write-multiple request: address, quantity, byte
\* count, data; with a read part before it as RdWrMultRegs has; and as a
\* mask write: address, and_mask, or_mask.
MultPayloads ==
    {BeBytes(0) \o BeBytes(q) \o <<c>> \o d :
        q \in {0, 1, 2}, c \in {0, 1, 2}, d \in SeqsUpTo({5}, MaxData)}

ReadWritePayloads ==
    {BeBytes(1) \o BeBytes(q) \o BeBytes(0) \o BeBytes(1) \o <<c>> \o d :
        q \in {0, 1}, c \in {0, 2}, d \in SeqsUpTo({5}, MaxData)}

MaskPayloads ==
    {BeBytes(1) \o BeBytes(x) \o BeBytes(1) \o pad : x \in {0, 1}, pad \in {<<>>, <<0>>}}

Payloads == ShortPayloads \cup WordPayloads \cup MultPayloads \cup ReadWritePayloads \cup MaskPayloads

\* The length fields tried with a payload: the smallest ones, and those
\* around the length that frames the payload exactly.
LengthsFor(payload) ==
    {0, 1, 2} \cup {l \in 0..(Len(payload) + 3) :
                        l >= Len(payload) + 2 - MaxSkew}

Frame(transaction_id, length, unit_id, raw_func, payload) ==
    BeBytes(transaction_id) \o BeBytes(0) \o BeBytes(length)
        \o <<unit_id, raw_func>> \o payload

FramesOf(payloads, funcs) ==
    UNION {{Frame(1, length, 1, f, p) : length \in LengthsFor(p), f \in funcs} :
              p \in payloads}

\* Exception codes (IllegalDataAddr, IllegalDataValue, MemParityErr,
\* GatewayTargetFailToResp), alone and followed by a byte, under the
\* function bytes the exception dissector tells apart, with and without
\* the exception bit: RdExcStatus, Diagnostic, PollController, WrMultRegs,
\* ReportServerID, RdFileRec.
ExceptionPayloads == {<<c>> \o pad : c \in {2, 3, 8, 11}, pad \in {<<>>, <<0>>}}

ExceptionFuncBytes == {7, 8, 14, 16, 17, 20, 135, 136, 142, 144, 145, 148}

Inputs == ShortInputs \cup FramesOf(Payloads, FuncBytes)
              \cup FramesOf(ExceptionPayloads, ExceptionFuncBytes)

NoResult == [kind |-> "None"]
NoMsg == [none |-> TRUE]
NotCalled == [called |-> FALSE, value |-> FALSE]
Returned(v) == [called |-> TRUE, value |-> v]
NotAsked == [kind |-> "NotAsked"]

(***************************************************************************)
(* The parse loop of the crate's example: parse the head of the stream,    *)
(* continue with the rest.                                                 *)
(***************************************************************************)
Idle ==
    /\ probed = <<>>
    /\ arg = <<>>
    /\ result = NoResult
    /\ status = "None"
    /\ self = NoMsg
    /\ other = NoMsg
    /\ ret = NotCalled
    /\ back = NotCalled
    /\ addr1 = 0
    /\ address_range = NotAsked
    /\ write_value = NotAsked
    /\ op = "init"

Init ==
    /\ bytes \in Inputs
    /\ direction \in Directions
    /\ checks \in BOOLEAN
    /\ pc = "call"
    /\ Idle

\* Mutant: the loop does not continue with the rest.
ParseCallKeepsBytes ==
    /\ pc = "call"
    /\ LET r == Parse(bytes, direction, checks) IN
       /\ arg' = bytes
       /\ result' = r
       /\ bytes' = bytes
       /\ pc' = IF r.kind = "Ok" /\ Len(r.rest) > 0 THEN "call" ELSE "done"
    /\ op' = "parse"
    /\ UNCHANGED <<direction, checks, probed, status, self, other, ret, back>>
    /\ UNCHANGED <<addr1, address_range, write_value>>

ParseCall ==
    /\ pc = "call"
    /\ LET r == Parse(bytes, direction, checks) IN
       /\ arg' = bytes
       /\ result' = r
       /\ bytes' = IF r.kind = "Ok" THEN r.rest ELSE bytes
       /\ pc' = IF r.kind = "Ok" /\ Len(r.rest) > 0 THEN "call" ELSE "done"
    /\ op' = "parse"
    /\ UNCHANGED <<direction, checks, probed, status, self, other, ret, back>>
    /\ UNCHANGED <<addr1, address_range, write_value>>

Next == ParseCall

Spec == Init /\ [][Next]_vars

(***************************************************************************)
(* Claims about parse, stated on the latest call: arg is the slice it was  *)
(* given, result what it returned.                                         *)
(***************************************************************************)
Parsed == op = "parse" /\ result # NoResult

\* The header fields as they lie in the argument slice.
ArgU16(i) == arg[i] * 256 + arg[i + 1]
ArgProtocolId == ArgU16(3)
ArgLength == ArgU16(5)
ArgRawFunc == arg[8]
ArgFollowing == Len(arg) - 6

\* C1: if parse returns Ok with a message, it consumed 7 + (length - 1)
\* bytes: the rest has Len(input) - (7 + length - 1) bytes.
C1_ConsumedIsFrame ==
    (Parsed /\ result.kind = "Ok")
        => Len(result.rest) = Len(arg) - (7 + result.msg.length - 1)

\* C2: parse signals missing bytes with Incomplete(n), n > 0: on fewer than
\* 4 bytes, on 4-5 bytes with protocol_id 0, and, with protocol_id 0 and
\* length >= 2, with Incomplete(length - k) when only k < length bytes
\* follow the length field, whatever the direction.
C2_IncompleteOnMissingBytes ==
    Parsed =>
        /\ result.kind = "Incomplete" => result.needed > 0
        /\ Len(arg) < 4 => result.kind = "Incomplete"
        /\ (Len(arg) \in {4, 5} /\ ArgProtocolId = 0) => result.kind = "Incomplete"
        /\ (Len(arg) >= 6 /\ ArgProtocolId = 0 /\ ArgLength >= 2
                /\ ArgFollowing < ArgLength)
              => result = Incomplete(ArgLength - ArgFollowing)

C2_Witness ==
    /\ Parsed
    /\ Len(arg) >= 7
    /\ ArgProtocolId = 0
    /\ ArgLength >= 2
    /\ ArgFollowing < ArgLength
    /\ direction = "ToClient"
    /\ result = Incomplete(ArgLength - ArgFollowing)

\* C3: header validation errors take precedence over missing bytes: at
\* least 4 bytes with protocol_id # 0 fail with InvalidData, and at least 6
\* bytes with protocol_id 0 and length < 2 fail with InvalidData, whatever
\* follows.
C3_HeaderErrorsFirst ==
    Parsed =>
        /\ (Len(arg) >= 4 /\ ArgProtocolId # 0) => result.kind = "InvalidData"
        /\ (Len(arg) >= 6 /\ ArgProtocolId = 0 /\ ArgLength < 2)
              => result.kind = "InvalidData"

C3_Witness ==
    /\ Parsed
    /\ Len(arg) > 8
    /\ ArgProtocolId = 0
    /\ ArgLength = 1
    /\ result.kind = "InvalidData"

\* The dissector the dispatcher selects for the argument's function byte.
ArgFunction == FunctionNew(ArgRawFunc)
ArgDataLength == ArgLength - 2
ArgSelectsException == direction # "ToServer" /\ ArgRawFunc >= 128
ArgSelectsDiagnostic == ArgFunction.code = "Diagnostic" /\ ~ArgSelectsException
ArgSelectsMei == ArgFunction.code = "MEI" /\ ~ArgSelectsException
ArgSelectsReadResponse ==
    /\ direction = "ToClient"
    /\ ArgRawFunc < 128
    /\ ArgFunction.code \in {"RdCoils", "RdDiscreteInputs", "RdHoldRegs",
                             "RdInputRegs", "RdWrMultRegs"}

\* C4: parse returns InvalidData only when protocol_id # 0, length < 2, the
\* diagnostic dissector is selected with data_length < 2, the MEI dissector
\* with data_length < 1, or the read-response dissector with data_length < 1;
\* no flagged condition turns a parse into InvalidData.
C4_InvalidDataOnlyStructural ==
    (Parsed /\ result.kind = "InvalidData") =>
        \/ ArgProtocolId # 0
        \/ ArgLength < 2
        \/ ArgSelectsDiagnostic /\ ArgDataLength < 2
        \/ ArgSelectsMei /\ ArgDataLength < 1
        \/ ArgSelectsReadResponse /\ ArgDataLength < 1

C4_Witness ==
    /\ Parsed
    /\ result.kind = "InvalidData"
    /\ ArgProtocolId = 0
    /\ ArgLength >= 2
    /\ ArgSelectsReadResponse

\* C6: for a successful parse with direction ToClient or Unknown, the data
\* is the Exception variant iff function.raw >= 0x80.
C6_ExceptionIffHighBit ==
    (Parsed /\ result.kind = "Ok" /\ direction \in {"ToClient", "Unknown"})
        => (result.msg.data.tag = "Exception" <=> result.msg.function.raw >= 128)

C6_Witness ==
    /\ Parsed
    /\ result.kind = "Ok"
    /\ direction = "ToClient"
    /\ result.msg.function.raw >= 128
    /\ result.msg.function.code = "Diagnostic"
    /\ result.msg.data.tag = "Exception"

(***************************************************************************)
(* Probing a slice, then parsing it.                                       *)
(***************************************************************************)
ProbeInputs == ShortInputs \cup FramesOf(SeqsUpTo(ByteVals, MaxData) \cup MultPayloads,
                                         {1, 8, 16, 43, 136})

ProbeInit ==
    /\ bytes \in ProbeInputs
    /\ direction \in Directions
    /\ checks \in BOOLEAN
    /\ pc = "call"
    /\ Idle

ProbeCall ==
    /\ pc = "call"
    /\ probed' = bytes
    /\ status' = Probe(bytes, direction, checks)
    /\ op' = "probe"
    /\ UNCHANGED <<bytes, direction, checks, arg, result, pc, self, other, ret, back>>
    /\ UNCHANGED <<addr1, address_range, write_value>>

ProbeNext == ProbeCall \/ ParseCall

ProbeSpec == ProbeInit /\ [][ProbeNext]_vars

\* C5: probe is determined by parse on the same arguments: Recognized iff
\* parse succeeds with a message, Incomplete iff parse returns the
\* Incomplete error, Unrecognized for every other error.
C5_ProbeFollowsParse ==
    (Parsed /\ status # "None" /\ probed = arg) =>
        /\ status = "Recognized" <=> result.kind = "Ok"
        /\ status = "Incomplete" <=> result.kind = "Incomplete"
        /\ status = "Unrecognized" <=> result.kind = "InvalidData"

C5_Witness ==
    /\ Parsed
    /\ probed = arg
    /\ status = "Incomplete"
    /\ result.kind = "Incomplete"
    /\ Len(arg) >= 8

(***************************************************************************)
(* Matching two parsed messages, in both orders.                           *)
(***************************************************************************)
\* Function bytes with payloads that give each data variant: read requests
\* and responses, single, multiple and mask writes, diagnostics (named and
\* reserved subfunctions), MEI types, exception codes.
MatchCases ==
    ({1} \X {<<0, 0, 0, 1>>, <<0, 0, 0, 9>>, <<1, 5>>, <<2, 5, 5>>})
    \cup ({3} \X {<<0, 0, 0, 1>>, <<2, 5, 5>>})
    \cup ({129, 136} \X {<<2>>})
    \cup ({8} \X {<<0, 0, 0, 0>>, <<0, 1, 0, 0>>, <<0, 5, 0, 0>>})
    \cup ({5} \X {<<0, 0, 255, 0>>, <<0, 0, 0, 0>>})
    \cup ({16} \X {<<0, 0, 0, 1, 2, 5, 5>>, <<0, 0, 0, 1>>, <<0, 0, 0, 2>>})
    \cup ({22} \X {<<0, 1, 0, 1, 0, 1>>, <<0, 1, 0, 1, 0, 0>>})
    \cup ({23} \X {<<0, 1, 0, 1, 0, 0, 0, 1, 2, 5, 5>>, <<2, 5, 5>>, <<1, 5>>})
    \cup ({43} \X {<<13>>, <<14>>, <<1>>})

\* Every case under one transaction and unit; the read cases also under
\* another transaction and under another unit.
MatchInputs ==
    {Frame(1, Len(c[2]) + 2, 1, c[1], c[2]) : c \in MatchCases}
    \cup {Frame(t, Len(c[2]) + 2, 3 - t, c[1], c[2]) :
             t \in {1, 2}, c \in {x \in MatchCases : x[1] = 1}}

MatchInit ==
    /\ bytes = <<>>
    /\ direction = "Unknown"
    /\ checks \in BOOLEAN
    /\ pc = "call"
    /\ Idle

ParseSelf ==
    /\ self = NoMsg
    /\ \E input \in MatchInputs, dir \in Directions :
          LET r == Parse(input, dir, checks) IN
          /\ r.kind = "Ok"
          /\ self' = r.msg
    /\ op' = "parse"
    /\ UNCHANGED <<bytes, direction, checks, probed, arg, result, status, pc,
                   other, ret, back>>
    /\ UNCHANGED <<addr1, address_range, write_value>>

ParseOther ==
    /\ other = NoMsg
    /\ \E input \in MatchInputs, dir \in Directions :
          LET r == Parse(input, dir, checks) IN
          /\ r.kind = "Ok"
          /\ other' = r.msg
    /\ op' = "parse"
    /\ UNCHANGED <<bytes, direction, checks, probed, arg, result, status, pc,
                   self, ret, back>>
    /\ UNCHANGED <<addr1, address_range, write_value>>

MatchCall ==
    /\ self # NoMsg
    /\ other # NoMsg
    /\ ret = NotCalled
    /\ LET m == Matches(self, other) IN
       /\ self' = m.msg
       /\ ret' = Returned(m.ret)
    /\ op' = "matches"
    /\ UNCHANGED <<bytes, direction, checks, probed, arg, result, status, pc,
                   other, back>>
    /\ UNCHANGED <<addr1, address_range, write_value>>

MatchBack ==
    /\ self # NoMsg
    /\ other # NoMsg
    /\ back = NotCalled
    /\ LET m == Matches(other, self) IN
       /\ other' = m.msg
       /\ back' = Returned(m.ret)
    /\ op' = "matches_back"
    /\ UNCHANGED <<bytes, direction, checks, probed, arg, result, status, pc,
                   self, ret>>
    /\ UNCHANGED <<addr1, address_range, write_value>>

MatchNext == ParseSelf \/ ParseOther \/ MatchCall \/ MatchBack

MatchSpec == MatchInit /\ [][MatchNext]_vars

(***************************************************************************)
(* Claims about matches.  MatchCall is self.matches(other), MatchBack is   *)
(* other.matches(self).                                                    *)
(***************************************************************************)
BothCalled == ret.called /\ back.called

\* C7: acceptance is commutative: if a.matches(b) returns true then
\* b.matches(a) returns true.
C7_MatchesCommutes ==
    BothCalled => (ret.value => back.value)

\* What a call leaves alone: every field of the receiver but flags.
SameButFlags(a, b) ==
    /\ a.transaction_id = b.transaction_id
    /\ a.protocol_id = b.protocol_id
    /\ a.length = b.length
    /\ a.unit_id = b.unit_id
    /\ a.function = b.function
    /\ a.access_type = b.access_type
    /\ a.category = b.category
    /\ a.data = b.data

\* C8: a.matches(b) mutates only a.flags: every other field of the receiver
\* and the whole of b are unchanged, whatever the result.
C8_MatchesFrame ==
    [][/\ op' = "matches" => (SameButFlags(self, self') /\ other' = other)
       /\ op' = "matches_back" => (SameButFlags(other, other') /\ self' = self)]_vars

C8_Witness ==
    /\ op = "matches"
    /\ ret.called
    /\ ret.value
    /\ self.data.tag = "WriteMask"
    /\ "DATA_VALUE" \in self.flags

\* The fields compared first.
FieldsDiffer(a, b) ==
    \/ a.transaction_id # b.transaction_id
    \/ a.unit_id # b.unit_id
    \/ a.function.code # b.function.code
    \/ a.access_type # b.access_type

\* C9: if the messages differ in transaction_id, unit_id, function.code or
\* access_type, matches returns false and leaves the flags unchanged;
\* function.raw is not compared: a request and an exception response with
\* the same masked function code are accepted.
C9_Step(a, b, a2, r) ==
    /\ FieldsDiffer(a, b) => (~r.value /\ a2.flags = a.flags)
    /\ (~FieldsDiffer(a, b) /\ a.function.raw # b.function.raw
            /\ b.data.tag = "Exception") => r.value

C9_EarlyReject ==
    [][/\ op' = "matches" => C9_Step(self, other, self', ret')
       /\ op' = "matches_back" => C9_Step(other, self, other', back')]_vars

C9_Witness ==
    /\ op = "matches"
    /\ ret.called
    /\ self.unit_id # other.unit_id
    /\ self.transaction_id = other.transaction_id
    /\ self.function.code = other.function.code
    /\ ~ret.value

\* C10: when the compared fields agree, matches returns true without
\* changing flags if the data of either message is an Exception or the
\* receiver's category is not PUBLIC_ASSIGNED.
C10_Step(a, b, a2, r) ==
    (/\ ~FieldsDiffer(a, b)
     /\ \/ a.data.tag = "Exception"
        \/ b.data.tag = "Exception"
        \/ a.category # "PUBLIC_ASSIGNED")
        => (r.value /\ a2.flags = a.flags)

C10_EarlyAccept ==
    [][/\ op' = "matches" => C10_Step(self, other, self', ret')
       /\ op' = "matches_back" => C10_Step(other, self, other', back')]_vars

C10_Witness ==
    /\ op = "matches"
    /\ ret.called
    /\ ret.value
    /\ ~FieldsDiffer(self, other)
    /\ self.category = "PUBLIC_ASSIGNED"
    /\ self.data.tag = "ReadRequest"
    /\ other.data.tag = "Exception"

(***************************************************************************)
(* Claims about the write-multiple request dissector.                      *)
(***************************************************************************)
\* The byte count as it lies in the argument slice: after address and
\* quantity, and after the read part for RdWrMultRegs.
ArgWriteCount == IF ArgRawFunc = 23 THEN arg[17] ELSE arg[13]

\* C11: for a write-multiple request parsed ToServer, DATA_VALUE is absent
\* from the flags exactly when the byte count is ceil(quantity / 8) for bit
\* access and 2 * quantity for word access.
C11_CountFitsIffNoDataValue ==
    (Parsed /\ direction = "ToServer" /\ result.kind = "Ok"
            /\ IsWriteMult(result.msg))
        => ("DATA_VALUE" \notin result.msg.flags
              <=> IF Intersects(result.msg.access_type, BIT_ACCESS_MASK)
                  THEN ArgWriteCount = CeilDiv8(WriteMultOf(result.msg).quantity)
                  ELSE ArgWriteCount = 2 * WriteMultOf(result.msg).quantity)

(***************************************************************************)
(* Asking a parsed message for its address range and for the value it      *)
(* writes at an address.                                                   *)
(***************************************************************************)
\* PDU addresses (0-based): the lowest ones and the two highest u16 values.
PduAddresses == {0, 1, U16 - 2, U16 - 1}

\* Function bytes with payloads framed exactly: single writes, coil and
\* register multiple writes (any quantity with any data length), the
\* read/write function, a mask write, reads, and functions without an
\* address (diagnostic, MEI, exception, unknown).
AccessCases ==
    ({5, 6} \X {BeBytes(a) \o BeBytes(v) : a \in PduAddresses, v \in {0, 5, 65280}})
    \cup ({15} \X {BeBytes(a) \o BeBytes(q) \o <<Len(d)>> \o d :
                      a \in {0, U16 - 2, U16 - 1}, q \in {0, 1, 2, 9},
                      d \in SeqsUpTo({1, 2}, MaxData)})
    \cup ({16} \X {BeBytes(a) \o BeBytes(q) \o <<Len(d)>> \o d :
                      a \in PduAddresses, q \in {0, 1, 2},
                      d \in SeqsUpTo({1, 2}, 2 * MaxData)})
    \cup ({23} \X {BeBytes(0) \o BeBytes(1) \o BeBytes(a) \o BeBytes(q) \o <<Len(d)>> \o d :
                      a \in {1, U16 - 1}, q \in {0, 2},
                      d \in {<<>>, <<1, 2>>, <<1, 2, 2>>, <<1, 2, 2, 1>>}})
    \cup ({22} \X {BeBytes(a) \o BeBytes(1) \o BeBytes(2) : a \in PduAddresses})
    \cup ({1, 3} \X {BeBytes(a) \o BeBytes(q) : a \in PduAddresses, q \in {0, 1, 2}})
    \cup ({1, 3} \X {<<2, 1, 2>>})
    \cup ({8} \X {<<0, 0, 0, 0>>})
    \cup ({43} \X {<<14>>})
    \cup ({129, 100, 7} \X {<<2>>})

AccessInputs == {Frame(1, Len(c[2]) + 2, 1, c[1], c[2]) : c \in AccessCases}

\* The 1-based addresses asked for.
Addr1s == {0, 1, 2, 3, U16 - 1}

AccessInit ==
    /\ bytes \in AccessInputs
    /\ direction \in Directions
    /\ checks \in BOOLEAN
    /\ pc = "call"
    /\ Idle

GetAddressRangeCall ==
    /\ pc = "done"
    /\ result.kind = "Ok"
    /\ address_range = NotAsked
    /\ address_range' = GetAddressRange(result.msg, checks)
    /\ op' = "get_address_range"
    /\ UNCHANGED <<bytes, direction, checks, probed, arg, result, status, pc,
                   self, other, ret, back, addr1, write_value>>

GetWriteValueCall ==
    /\ pc = "done"
    /\ result.kind = "Ok"
    /\ \E a \in Addr1s :
          /\ addr1' = a
          /\ write_value' = GetWriteValueAtAddress(result.msg, a, checks)
    /\ op' = "get_write_value_at_address"
    /\ UNCHANGED <<bytes, direction, checks, probed, arg, result, status, pc,
                   self, other, ret, back, address_range>>

AccessNext == ParseCall \/ GetAddressRangeCall \/ GetWriteValueCall

AccessSpec == AccessInit /\ [][AccessNext]_vars

(***************************************************************************)
(* Claims about the accessors, stated on the message of the latest parse   *)
(* and the latest answers.                                                 *)
(***************************************************************************)
RangeAsked == address_range # NotAsked
ValueAsked == write_value # NotAsked

\* C12: if get_address_range returns a range and the range does not
\* contain addr1, get_write_value_at_address(addr1) returns None.
C12_OutsideRangeIsNone ==
    (RangeAsked /\ ValueAsked /\ address_range.kind = "Some"
                /\ ~RangeContains(address_range.val, addr1))
        => write_value = None

C12_Witness ==
    /\ RangeAsked
    /\ ValueAsked
    /\ result.msg.data.tag = "WriteMultReq"
    /\ Len(result.msg.data.data) >= 2
    /\ address_range = Some(RangeInclusive(1, 2))
    /\ addr1 = 3
    /\ write_value = None

\* C13: for a write-multiple-registers request (Write::MultReq or the
\* write part of ReadWrite, HOLDING access) with start address s < 0xFFFF
\* and data d, and addr1 inside get_address_range():
\* get_write_value_at_address(addr1) is Some(d[2i] * 256 + d[2i + 1]) with
\* i = addr1 - (s + 1) when index 2i + 1 exists in d, and None otherwise
\* (d indexed from 0 in the claim, from 1 here).
C13_RegisterValue ==
    (RangeAsked /\ ValueAsked /\ IsWriteMult(result.msg)
                /\ Contains(result.msg.access_type, {"HOLDING"})
                /\ WriteMultOf(result.msg).address < U16 - 1
                /\ address_range.kind = "Some"
                /\ RangeContains(address_range.val, addr1))
        => LET d == WriteMultOf(result.msg).data
               i == addr1 - (WriteMultOf(result.msg).address + 1)
           IN write_value = IF 2 * i + 1 < Len(d)
                            THEN Some(d[2 * i + 1] * 256 + d[2 * i + 2])
                            ELSE None

C13_Witness ==
    /\ RangeAsked
    /\ ValueAsked
    /\ result.msg.function.code = "WrMultRegs"
    /\ result.msg.data.tag = "WriteMultReq"
    /\ result.msg.data.address = 0
    /\ result.msg.data.data = <<1, 1, 2, 1>>
    /\ address_range = Some(RangeInclusive(1, 2))
    /\ addr1 = 2
    /\ write_value = Some(2 * 256 + 1)

\* C14: for a write-multiple-coils request with quantity q >= 1 and
\* ceil(q / 8) data bytes, for every i in 0..q-1
\* get_write_value_at_address(start + 1 + i) is Some(v), v being bit
\* (i mod 8) of data byte floor(i / 8).
C14_CoilValue ==
    (ValueAsked /\ result.msg.function.code = "WrMultCoils"
                /\ result.msg.data.tag = "WriteMultReq"
                /\ result.msg.data.quantity >= 1
                /\ Len(result.msg.data.data) = CeilDiv8(result.msg.data.quantity)
                /\ addr1 > result.msg.data.address
                /\ addr1 <= result.msg.data.address + result.msg.data.quantity)
        => LET i == addr1 - (result.msg.data.address + 1)
               byte == result.msg.data.data[(i \div 8) + 1]
           IN write_value = Some((byte \div (2 ^ (i % 8))) % 2)

\* The range the message's data stands for, in unbounded arithmetic.
ExpectedRange(msg) ==
    IF msg.data.tag \in {"WriteOther", "WriteMask"}
    THEN Some(RangeInclusive(msg.data.address + 1, msg.data.address + 1))
    ELSE IF msg.data.tag = "ReadRequest" \/ IsWriteMult(msg)
    THEN LET d == IF msg.data.tag = "ReadRequest" THEN msg.data ELSE WriteMultOf(msg)
         IN IF d.quantity > 0
            THEN Some(RangeInclusive(d.address + 1, d.address + d.quantity))
            ELSE None
    ELSE None

\* C15: get_address_range returns address + 1 ..= address + 1 for
\* Write::Other and Write::Mask; address + 1 ..= address + quantity for
\* Read::Request, Write::MultReq and ReadWrite (the write part) when
\* quantity > 0 and None when quantity = 0; None for every other variant.
C15_AddressRangeTable ==
    RangeAsked => address_range = ExpectedRange(result.msg)

\* The same table where address + 1 and address + quantity fit in a u16.
RangeFitsU16(msg) ==
    ExpectedRange(msg).kind = "Some" => ExpectedRange(msg).val.end < U16

AddressRangeTableWithinU16 ==
    (RangeAsked /\ RangeFitsU16(result.msg))
        => address_range = ExpectedRange(result.msg)

(***************************************************************************)
(* Claims about the classification of a parsed message.                    *)
(***************************************************************************)
\* C16 as stated: for function.code = Diagnostic the category is RESERVED
\* when the data is Diagnostic with subfunction.code = Reserved and
\* PUBLIC_ASSIGNED otherwise; for function.code = MEI it is RESERVED when
\* the data is MEI with mei_type.code = Unknown and PUBLIC_ASSIGNED
\* otherwise.
C16_CategoryAssignedOtherwise ==
    (Parsed /\ result.kind = "Ok") =>
        /\ result.msg.function.code = "Diagnostic"
             => result.msg.category =
                  IF result.msg.data.tag = "Diagnostic"
                     /\ result.msg.data.func.code = "Reserved"
                  THEN "RESERVED" ELSE "PUBLIC_ASSIGNED"
        /\ result.msg.function.code = "MEI"
             => result.msg.category =
                  IF result.msg.data.tag = "MEI"
                     /\ result.msg.data.mei_type.code = "Unknown"
                  THEN "RESERVED" ELSE "PUBLIC_ASSIGNED"

\* C16, amended: for function.code = Diagnostic the category is RESERVED
\* when the data is Diagnostic with subfunction.code = Reserved,
\* PUBLIC_ASSIGNED when the data is Diagnostic with another subfunction,
\* and NONE when the data is of another variant (an exception response);
\* likewise for function.code = MEI with mei_type.code = Unknown.
C16_CategoryOfDiagnosticAndMei ==
    (Parsed /\ result.kind = "Ok") =>
        /\ result.msg.function.code = "Diagnostic"
             => result.msg.category =
                  IF result.msg.data.tag # "Diagnostic" THEN "NONE"
                  ELSE IF result.msg.data.func.code = "Reserved" THEN "RESERVED"
                  ELSE "PUBLIC_ASSIGNED"
        /\ result.msg.function.code = "MEI"
             => result.msg.category =
                  IF result.msg.data.tag # "MEI" THEN "NONE"
                  ELSE IF result.msg.data.mei_type.code = "Unknown" THEN "RESERVED"
                  ELSE "PUBLIC_ASSIGNED"

C16_Witness ==
    /\ Parsed
    /\ result.kind = "Ok"
    /\ result.msg.function = [raw |-> 136, code |-> "Diagnostic"]
    /\ result.msg.data.tag = "Exception"
    /\ result.msg.category = "NONE"

ReadWriteFunctions ==
    {"RdCoils", "RdDiscreteInputs", "RdHoldRegs", "RdInputRegs", "WrSingleCoil",
     "WrSingleReg", "WrMultCoils", "WrMultRegs", "MaskWrReg", "RdWrMultRegs"}

\* C17: for every successfully parsed message, in every direction,
\* access_type is the access classifier applied to function.code, the code
\* decoded from raw, or from raw XOR 0x80 when raw >= 0x80; every function
\* outside the ten read/write functions has access_type NONE.
C17_AccessTypeOfCode ==
    (Parsed /\ result.kind = "Ok") =>
        LET raw == result.msg.function.raw
            code == FunctionCodeFromRaw(IF raw >= 128 THEN raw - 128 ELSE raw)
        IN /\ result.msg.function.code = code
           /\ result.msg.access_type = AccessTypeOf(code)
           /\ code \notin ReadWriteFunctions => result.msg.access_type = {}

C17_Witness ==
    /\ Parsed
    /\ result.kind = "Ok"
    /\ result.msg.function = [raw |-> 129, code |-> "RdCoils"]
    /\ result.msg.data.tag = "Exception"
    /\ result.msg.access_type = {"READ", "COILS"}

(***************************************************************************)
(* Claims about the bytes parse reads.                                     *)
(***************************************************************************)
\* C19: parse never consumes bytes beyond the frame the length field
\* declares: on Ok, with length >= 2, the rest has at least
\* Len(input) - 6 - length bytes, for every function and direction.
C19_StaysInsideFrame ==
    (Parsed /\ result.kind = "Ok" /\ ArgLength >= 2)
        => Len(result.rest) >= Len(arg) - 6 - ArgLength

\* C20: length - offset in the write-multiple request dissector never
\* underflows: no input makes a build with overflow checks panic (the
\* subtraction is the only place of parse that can).
C20_NoUnderflow ==
    Parsed => Parse(arg, direction, TRUE) # Panic

(***************************************************************************)
(* The parse loop over a stream of several frames.  The loop is            *)
(* sequential code: while it has not returned it makes its next call,      *)
(* hence the weak fairness of its turns.                                   *)
(***************************************************************************)
\* Frames of transaction t: a request without data, a read request, an
\* exception response; each framed exactly and with the smallest length.
LoopFrames(t) ==
    {Frame(t, length, 1, f, p) :
        length \in {2, 6}, f \in {1, 7, 129}, p \in {<<>>, <<2>>, <<0, 0, 0, 1>>}}

\* Streams of exactly n frames, the k-th of transaction k.
RECURSIVE StreamsOf(_)
StreamsOf(n) ==
    IF n = 0 THEN {<<>>}
    ELSE {s \o f : s \in StreamsOf(n - 1), f \in LoopFrames(n)}

LoopInputs == UNION {StreamsOf(n) : n \in 1..MaxFrames}

LoopInit ==
    /\ bytes \in LoopInputs
    /\ direction \in Directions
    /\ checks \in BOOLEAN
    /\ pc = "call"
    /\ Idle

\* A turn of the loop as its caller sees it: parse is called on the
\* current bytes.  Every ParseCall step is a turn, and a turn is possible
\* whenever the loop has not returned.
LoopTurn == pc = "call" /\ arg' = bytes /\ op' = "parse"

LoopSpec == LoopInit /\ [][Next]_vars /\ WF_<<arg, op>>(LoopTurn)

IsSuffix(s, t) ==
    /\ Len(s) <= Len(t)
    /\ s = SubSeq(t, Len(t) - Len(s) + 1, Len(t))

ShrinksByFrame ==
    (Parsed /\ result.kind = "Ok")
        => /\ IsSuffix(result.rest, arg)
           /\ Len(result.rest) + 8 <= Len(arg)

\* C18: the streaming loop terminates on every finite input: every Ok
\* result returns a rest that is a suffix of the input at least 8 bytes
\* shorter than it, and the loop reaches its end.
C18_LoopTerminates == [](ShrinksByFrame) /\ <>(pc = "done")

C18_Witness ==
    /\ pc = "done"
    /\ Parsed
    /\ result.kind = "Ok"
    /\ result.msg.transaction_id = 2
    /\ Len(arg) = 8
    /\ bytes = <<>>

(***************************************************************************)
(* Further claims about the accessors.                                     *)
(***************************************************************************)
\* C21: get_address_range never overflows 16-bit arithmetic: for every
\* message parse can produce, address + 1 and address + quantity do not
\* exceed 65535, so no build with overflow checks panics in it (the two
\* additions are the only place of get_address_range that can).
C21_NoOverflow ==
    (pc = "done" /\ result.kind = "Ok")
        => GetAddressRange(result.msg, TRUE) # Panic

\* C22: whenever get_address_range() returns None for a message,
\* get_write_value_at_address returns None for every address.
C22_NoRangeNoValue ==
    (RangeAsked /\ ValueAsked /\ address_range = None) => write_value = None

(***************************************************************************)
(* Claims about the exception dissector.                                   *)
(***************************************************************************)
IsException == Parsed /\ result.kind = "Ok" /\ result.msg.data.tag = "Exception"

\* C23: the exception dissector consumes exactly one byte as the exception
\* code and sets EXC_CODE iff (function.code = Diagnostic and code =
\* IllegalDataValue) or ((6 < function.raw < 15 or 16 < function.raw < 22)
\* and code = IllegalDataAddr) or (function.code is neither RdFileRec nor
\* WrFileRec and code = MemParityErr); it sets no other flag.
C23_ExceptionFlags ==
    IsException =>
        LET function == result.msg.function
            exc == result.msg.data.exc
        IN /\ Len(result.rest) = Len(arg) - 9
           /\ exc = ExceptionNew(arg[9])
           /\ result.msg.flags \subseteq {"EXC_CODE"}
           /\ "EXC_CODE" \in result.msg.flags
                <=> \/ function.code = "Diagnostic" /\ exc.code = "IllegalDataValue"
                    \/ /\ \/ 6 < function.raw /\ function.raw < 15
                          \/ 16 < function.raw /\ function.raw < 22
                       /\ exc.code = "IllegalDataAddr"
                    \/ /\ function.code \notin {"RdFileRec", "WrFileRec"}
                       /\ exc.code = "MemParityErr"

C23_Witness ==
    /\ IsException
    /\ result.msg.function = [raw |-> 136, code |-> "Diagnostic"]
    /\ result.msg.data.exc = [raw |-> 3, code |-> "IllegalDataValue"]
    /\ result.msg.flags = {"EXC_CODE"}
    /\ Len(result.rest) = 1

\* C24: an exception response parsed ToClient or Unknown for a function
\* numbered 7-14 or 17-21 (raw 0x87-0x8E or 0x91-0x95) that carries
\* IllegalDataAddr is returned with EXC_CODE set.
C24_IllegalDataAddrFlagged ==
    (IsException /\ direction \in {"ToClient", "Unknown"}
                 /\ result.msg.function.raw \in (135..142) \cup (145..149)
                 /\ result.msg.data.exc.code = "IllegalDataAddr")
        => "EXC_CODE" \in result.msg.flags

(***************************************************************************)
(* Claims about the read request dissector and the Unknown direction.      *)
(***************************************************************************)
\* What the claim makes of a read quantity: zero, or above the limit of
\* the access type.
ReadQuantityInvalid(msg, quantity) ==
    \/ quantity = 0
    \/ /\ msg.access_type \cap {"COILS", "DISCRETES"} # {}
       /\ quantity > 2000
    \/ /\ msg.access_type \cap {"COILS", "DISCRETES"} = {}
       /\ quantity > 125

C26_UnknownShapes ==
    (Parsed /\ direction = "Unknown" /\ result.kind = "Ok") =>
        /\ result.msg.data.tag \in {"Exception", "Diagnostic", "MEI", "ByteVec"}
        /\ result.msg.flags \cap {"DATA_VALUE", "DATA_LENGTH"} = {}

C26_Witness ==
    /\ Parsed
    /\ direction = "Unknown"
    /\ result.kind = "Ok"
    /\ result.msg.function.code = "RdCoils"
    /\ result.msg.data = [tag |-> "ByteVec", data |-> <<0, 0, 0, 0, 0>>]
    /\ result.msg.flags = {}

(***************************************************************************)
(* Claims about what matches compares in the data.                         *)
(***************************************************************************)
\* The flags a call leaves on the receiver when it adds DATA_VALUE under a
\* condition and nothing else.
FlagsWith(a, mismatch) ==
    IF mismatch THEN a.flags \cup {"DATA_VALUE"} ELSE a.flags

IsReadRequestData(m) ==
    m.data.tag = "ReadRequest"
        \/ (m.data.tag = "ReadWrite" /\ m.data.read.tag = "ReadRequest")

ReadQuantityOf(m) ==
    IF m.data.tag = "ReadWrite" THEN m.data.read.quantity ELSE m.data.quantity

\* A read response and a read (or read/write) request, in either order:
\* the response's byte count c and the request's quantity q.
IsReadPair(a, b) ==
    \/ a.data.tag = "ReadResponse" /\ IsReadRequestData(b)
    \/ IsReadRequestData(a) /\ b.data.tag = "ReadResponse"

ReadPairCount(a, b) ==
    IF a.data.tag = "ReadResponse" THEN Len(a.data.data) ELSE Len(b.data.data)

ReadPairQuantity(a, b) ==
    IF a.data.tag = "ReadResponse" THEN ReadQuantityOf(b) ELSE ReadQuantityOf(a)

\* C27: when a Read response (c data bytes) is matched against a Read or
\* ReadWrite request (read quantity q), in either receiver order, with
\* equal header fields and PUBLIC_ASSIGNED category, matches returns true
\* and adds DATA_VALUE to the receiver iff c # 2q for RdWrMultRegs, and iff
\* c # ceil(q / 8) otherwise.
C27_Step(a, b, a2, r) ==
    (~FieldsDiffer(a, b) /\ a.category = "PUBLIC_ASSIGNED" /\ IsReadPair(a, b))
        => /\ r.value
           /\ a2.flags =
                FlagsWith(a, IF a.function.code = "RdWrMultRegs"
                             THEN ReadPairCount(a, b) # 2 * ReadPairQuantity(a, b)
                             ELSE ReadPairCount(a, b)
                                    # CeilDiv8(ReadPairQuantity(a, b)))

C27_ReadCounts ==
    [][/\ op' = "matches" => C27_Step(self, other, self', ret')
       /\ op' = "matches_back" => C27_Step(other, self, other', back')]_vars

C27_Witness ==
    /\ op = "matches"
    /\ ret.called
    /\ ret.value
    /\ self.function.code = "RdCoils"
    /\ self.data.tag = "ReadResponse"
    /\ Len(self.data.data) = 2
    /\ other.data.tag = "ReadRequest"
    /\ other.data.quantity = 9
    /\ self.flags = {}

\* C28: matching a well-formed read-holding-registers or
\* read-input-registers request of quantity q (1 <= q <= 125) against its
\* response carrying exactly 2q data bytes, both parsed with no flags,
\* returns true and adds no DATA_VALUE flag to either message.
C28_Step(a, b, a2, r) ==
    (/\ ~FieldsDiffer(a, b)
     /\ a.function.code \in {"RdHoldRegs", "RdInputRegs"}
     /\ IsReadPair(a, b)
     /\ ReadPairQuantity(a, b) \in 1..125
     /\ ReadPairCount(a, b) = 2 * ReadPairQuantity(a, b)
     /\ a.flags = {}
     /\ b.flags \subseteq {"DATA_VALUE"})
        => (r.value /\ a2.flags = {})

C28_RegisterReadMatches ==
    [][/\ op' = "matches" => C28_Step(self, other, self', ret')
       /\ op' = "matches_back" => C28_Step(other, self, other', back')]_vars

\* Write data of compatible shape, and whether a compared field differs.
IsWritePair(a, b) ==
    \/ a.data.tag = "WriteOther" /\ b.data.tag \in {"WriteOther", "WriteMultReq"}
    \/ a.data.tag = "WriteMultReq" /\ b.data.tag = "WriteOther"
    \/ a.data.tag = "WriteMask" /\ b.data.tag = "WriteMask"

WriteAmount(m) ==
    IF m.data.tag = "WriteMultReq" THEN m.data.quantity ELSE m.data.data

WritePairDiffers(a, b) ==
    IF a.data.tag = "WriteMask"
    THEN \/ a.data.address # b.data.address
         \/ a.data.and_mask # b.data.and_mask
         \/ a.data.or_mask # b.data.or_mask
    ELSE \/ a.data.address # b.data.address
         \/ WriteAmount(a) # WriteAmount(b)

\* C29: when both messages carry write data of compatible shape
\* (Write::Other vs Write::Other, Write::Other vs Write::MultReq in either
\* order, Write::Mask vs Write::Mask) with equal header fields and
\* PUBLIC_ASSIGNED category, matches returns true and adds DATA_VALUE to
\* the receiver exactly when a compared field differs: a mismatch is a
\* flag, never a false result.
C29_Step(a, b, a2, r) ==
    (~FieldsDiffer(a, b) /\ a.category = "PUBLIC_ASSIGNED" /\ IsWritePair(a, b))
        => (r.value /\ a2.flags = FlagsWith(a, WritePairDiffers(a, b)))

C29_WriteMismatchIsFlag ==
    [][/\ op' = "matches" => C29_Step(self, other, self', ret')
       /\ op' = "matches_back" => C29_Step(other, self, other', back')]_vars

C29_Witness ==
    /\ op = "matches"
    /\ ret.called
    /\ ret.value
    /\ self.data.tag = "WriteMultReq"
    /\ other.data.tag = "WriteOther"
    /\ self.data.quantity # other.data.data
    /\ "DATA_VALUE" \in self.flags

(***************************************************************************)
(* A sequence of matches calls on one message, each with another parsed    *)
(* message.                                                                *)
(***************************************************************************)
SequenceCases ==
    ({1} \X {<<0, 0, 0, 1>>, <<1, 5>>})
    \cup ({3} \X {<<2, 5, 5>>})
    \cup ({129} \X {<<2>>})
    \cup ({8} \X {<<0, 1, 0, 0>>})
    \cup ({5} \X {<<0, 0, 0, 0>>})
    \cup ({16} \X {<<0, 0, 0, 2>>})
    \cup ({22} \X {<<0, 1, 0, 1, 0, 0>>})
    \cup ({23} \X {<<1, 5>>})
    \cup ({43} \X {<<14>>})

SequenceInputs ==
    {Frame(1, Len(c[2]) + 2, 1, c[1], c[2]) : c \in SequenceCases}

MatchWith ==
    /\ self # NoMsg
    /\ \E input \in SequenceInputs, dir \in Directions :
          LET r == Parse(input, dir, checks)
              m == Matches(self, r.msg)
          IN
          /\ r.kind = "Ok"
          /\ other' = r.msg
          /\ self' = m.msg
          /\ ret' = Returned(m.ret)
    /\ op' = "matches"
    /\ UNCHANGED <<bytes, direction, checks, probed, arg, result, status, pc, back>>
    /\ UNCHANGED <<addr1, address_range, write_value>>

SequenceNext == ParseSelf \/ MatchWith

SequenceSpec == MatchInit /\ [][SequenceNext]_vars

\* C30: across any sequence of matches calls on a message, its flags only
\* grow: each call leaves the flags unchanged or adds exactly DATA_VALUE,
\* never clears a bit, never adds DATA_LENGTH or EXC_CODE, and changes the
\* flags only when it returns true.
C30_Step(a, a2, r) ==
    /\ a2.flags \in {a.flags, a.flags \cup {"DATA_VALUE"}}
    /\ a2.flags # a.flags => r.value

C30_FlagsOnlyGrow ==
    [][op' = "matches" => C30_Step(self, self', ret')]_vars

C30_Witness ==
    /\ op = "matches"
    /\ ret.called
    /\ ~ret.value
    /\ self.data.tag = "WriteMask"
    /\ self.flags = {"DATA_VALUE"}
    /\ other.data.tag = "ReadRequest"

====
